---- MODULE Spec2Model ----
(***************************************************************************)
(* A model of INN/utilities.py: the invertible layers of INNLab            *)
(* (real_nvp_element, combined_real_nvp, NICE, PLUMatrix), the base        *)
(* distributions' logp, the lazily initialised MuVar and the stochastic    *)
(* log-det estimator iResNet.logdet.                                       *)
(*                                                                         *)
(* Numbers.  Tensor entries are exact rationals <<n, d>> (d > 0, lowest    *)
(* terms), so that an equality the code only reaches "within tolerance"    *)
(* is visible as an inequality.  The transcendental functions are taken    *)
(* on the integer grid: torch.exp(z) is 2^z for an integer z (a positive   *)
(* homomorphism from + to *, as exp is), torch.log is its inverse, and     *)
(* clip * tanh(z / clip) is the [3/2] Pade approximant of tanh rounded to  *)
(* the nearest integer.  A quantity of the form log(q) is carried by its   *)
(* antilogarithm q.                                                        *)
(***************************************************************************)
EXTENDS Integers, Sequences, FiniteSets, TLC

VARIABLES
    nvp,        \* the real_nvp_element under test (its fields)
    nvp_io,     \* the last forward / inverse call on it: arguments and results
    cnvp,       \* the combined_real_nvp under test
    cnvp_io,    \* the last forward / inverse call on it
    nice,       \* the NICE layer under test
    nice_io,    \* the last forward / inverse call on it
    plu,        \* the PLUMatrix under test (P, _L, _U, log_s, positive_s, eps)
    plu_io,     \* the last W() / logdet() evaluation on it
    dist,       \* the distribution object under test
    dist_io,    \* the last logp call on it
    muvar,      \* the MuVar module: initialized, mu_var
    muvar_io,   \* the last forward call on it and the sub-modules built so far
    ires,       \* the iResNet module: training flag and hyper-parameters
    frames      \* the logdet calls in progress, one frame per thread

vars == <<nvp, nvp_io, cnvp, cnvp_io, nice, nice_io, plu, plu_io, dist, dist_io,
          muvar, muvar_io, ires, frames>>

\* The value of a variable that the specification at hand does not use.
None == [cls |-> "None"]

-----------------------------------------------------------------------------
(* Bounds of the model.                                                    *)

\* Largest feature dimension `dim` of a layer.
MaxDim == 2
\* Largest batch size of an input tensor.
MaxBatch == 1

-----------------------------------------------------------------------------------------------------------------------------------------------------
(* Exact rational arithmetic.  The primitives are functions, so that TLC   *)
(* evaluates each argument once, to a value, before the body reads it.     *)

Abs(n) == IF n < 0 THEN -n ELSE n

Rat == Int \X Int

gcd[a \in Nat, b \in Nat] == IF b = 0 THEN a ELSE gcd[b, a % b]

\* n / d in lowest terms with a positive denominator (d # 0).
rnorm[n \in Int, d \in Int] ==
    IF d < 0 THEN <<(-n) \div gcd[Abs(n), -d], (-d) \div gcd[Abs(n), -d]>>
    ELSE <<n \div gcd[Abs(n), d], d \div gcd[Abs(n), d]>>

radd[a \in Rat, b \in Rat] == rnorm[a[1] * b[2] + b[1] * a[2], a[2] * b[2]]
rmul[a \in Rat, b \in Rat] == rnorm[a[1] * b[1], a[2] * b[2]]
rdiv[a \in Rat, b \in Rat] == rnorm[a[1] * b[2], a[2] * b[1]]
rneg[a \in Rat] == <<-a[1], a[2]>>
rabs[a \in Rat] == <<Abs(a[1]), a[2]>>
\* a rounded to the nearest integer, halves away from zero.
rround[a \in Rat] ==
    IF a[1] >= 0 THEN (2 * a[1] + a[2]) \div (2 * a[2])
    ELSE -((2 * (-a[1]) + a[2]) \div (2 * a[2]))
pow2[k \in Nat] == IF k = 0 THEN 1 ELSE 2 * pow2[k - 1]

RNorm(n, d) == rnorm[n, d]
R(n) == <<n, 1>>
RAdd(a, b) == radd[a, b]
RNeg(a) == rneg[a]
RSub(a, b) == radd[a, rneg[b]]
RMul(a, b) == rmul[a, b]
RDiv(a, b) == rdiv[a, b]
RAbs(a) == rabs[a]
RLe(a, b) == radd[b, rneg[a]][1] >= 0
RLt(a, b) == radd[b, rneg[a]][1] > 0
\* floor(a): \div rounds toward minus infinity.
rfloor[a \in Rat] == a[1] \div a[2]
RFloor(a) == rfloor[a]
RRound(a) == rround[a]

\* torch.exp on the integer grid: 2^z.
exp2[z \in Int] == IF z >= 0 THEN <<pow2[z], 1>> ELSE <<1, pow2[-z]>>
Exp(z) == exp2[z]

\* torch.tanh through its [3/2] Pade approximant u (27 + u^2) / (27 + 9 u^2);
\* ClipTanh(c, z) is c * tanh(z / c) rounded to the nearest integer.
cliptanh[c \in Int, z \in Int] ==
    rround[rnorm[z * (27 * c * c + z * z), 27 * c * c + 9 * z * z]]
ClipTanh(c, z) == cliptanh[c, z]

-----------------------------------------------------------------------------
(* Vectors (one sample: a sequence of rationals) and batches of them.      *)

\* A function on 1..n as an explicit tuple.
Vec(f) == SubSeq(f, 1, Len(f))

RatSeq == Seq(Rat)

seqsum[s \in RatSeq] == IF s = <<>> THEN R(0) ELSE radd[Head(s), seqsum[Tail(s)]]
seqprod[s \in RatSeq] == IF s = <<>> THEN R(1) ELSE rmul[Head(s), seqprod[Tail(s)]]
intsum[s \in Seq(Int)] == IF s = <<>> THEN 0 ELSE Head(s) + intsum[Tail(s)]
SeqSum(s) == seqsum[s]
IntSum(s) == intsum[s]
SeqProd(s) == seqprod[s]

vadd[u \in RatSeq, v \in RatSeq] == SubSeq([i \in DOMAIN u |-> radd[u[i], v[i]]], 1, Len(u))
vsub[u \in RatSeq, v \in RatSeq] == SubSeq([i \in DOMAIN u |-> radd[u[i], rneg[v[i]]]], 1, Len(u))
vmul[u \in RatSeq, v \in RatSeq] == SubSeq([i \in DOMAIN u |-> rmul[u[i], v[i]]], 1, Len(u))
vdiv[u \in RatSeq, v \in RatSeq] == SubSeq([i \in DOMAIN u |-> rdiv[u[i], v[i]]], 1, Len(u))
vcompl[b \in RatSeq] == SubSeq([i \in DOMAIN b |-> radd[R(1), rneg[b[i]]]], 1, Len(b))
vshift[v \in RatSeq, e \in Rat] == SubSeq([i \in DOMAIN v |-> radd[v[i], e]], 1, Len(v))
vint[z \in Seq(Int)] == SubSeq([i \in DOMAIN z |-> R(z[i])], 1, Len(z))

VAdd(u, v) == vadd[u, v]
VSub(u, v) == vsub[u, v]
VMul(u, v) == vmul[u, v]
VDiv(u, v) == vdiv[u, v]
\* 1 - b
VCompl(b) == vcompl[b]
\* v + eps, the scalar broadcast
VShift(v, e) == vshift[v, e]
VInt(z) == vint[z]

\* The vectors of length d over the integers of S, as rationals.
Vectors(d, S) == [1..d -> {R(n) : n \in S}]

\* The binary masks of length d.
BinaryMasks(d) == [1..d -> {R(0), R(1)}]

-----------------------------------------------------------------------------
(* Sub-networks.  f_log_s, f_t and m are caller-supplied deterministic     *)
(* functions of one sample; the model draws them from a small family that  *)
(* reads every entry of its input: a weighted sum of the input feeds every *)
(* output, plus a bias that alternates over the outputs.                   *)

\* sum_j j * v[j]
weighted[v \in RatSeq] == seqsum[SubSeq([j \in DOMAIN v |-> rmul[R(j), v[j]]], 1, Len(v))]
Weighted(v) == weighted[v]

\* A real-valued network: out[i] = w * sum_j j v[j] + bias * (i mod 2).
netreal[w \in Int, bias \in Int, v \in RatSeq] ==
    SubSeq([i \in DOMAIN v |-> radd[rmul[R(w), weighted[v]], R(bias * (i % 2))]], 1, Len(v))
NetReal(p, v) == netreal[p.w, p.bias, v]

\* An integer-valued network with outputs in -2 .. 2 (the grid of Exp).
netint[w \in Int, bias \in Int, v \in RatSeq] ==
    SubSeq([i \in DOMAIN v |-> ((rfloor[rmul[R(w), weighted[v]]] + bias * (i % 2) + 2) % 5) - 2],
           1, Len(v))
NetInt(p, v) == netint[p.w, p.bias, v]

\* The parameters of the f_log_s (and m) networks and of the f_t networks.
NetParams == [w : {1}, bias : {0, 1}]
NetParamsT == [w : {1}, bias : {0, -3}]

-----------------------------------------------------------------------------
(* Matrices: a sequence of rows.  Det is the determinant by expansion      *)
(* along the first row.                                                    *)

RatMat == Seq(RatSeq)

Minor(M, j) ==
    SubSeq([r \in 1..(Len(M) - 1) |->
              SubSeq([c \in 1..(Len(M) - 1) |-> M[r + 1][IF c < j THEN c ELSE c + 1]],
                     1, Len(M) - 1)], 1, Len(M) - 1)

det[M \in RatMat] ==
    IF Len(M) = 0 THEN R(1)
    ELSE IF Len(M) = 1 THEN M[1][1]
    ELSE seqsum[SubSeq([j \in 1..Len(M) |->
            rmul[rmul[R(IF j % 2 = 1 THEN 1 ELSE -1), M[1][j]], det[Minor(M, j)]]], 1, Len(M))]
Det(M) == det[M]

\* A @ B
matmul[A \in RatMat, B \in RatMat] ==
    SubSeq([i \in 1..Len(A) |->
        SubSeq([j \in 1..Len(B[1]) |->
            seqsum[SubSeq([k \in 1..Len(B) |-> rmul[A[i][k], B[k][j]]], 1, Len(B))]],
          1, Len(B[1]))], 1, Len(A))
MatMul(A, B) == matmul[A, B]

\* The unit vector e_j of length d.
Unit(d, j) == SubSeq([i \in 1..d |-> IF i = j THEN R(1) ELSE R(0)], 1, d)

-----------------------------------------------------------------------------
(* Tensors: a rank-1 tensor is one sample, a rank-2 tensor a batch of      *)
(* samples.  Both are carried as [rank, rows]; a rank-1 tensor has one row. *)
(* The batches the model feeds hold the samples v, v + 1, ..., v + (n-1)    *)
(* (entry-wise), so that no two samples of a batch are equal.               *)

XVals == {-1, 0, 2}

BatchOf(v, n) ==
    SubSeq([k \in 1..n |-> SubSeq([i \in DOMAIN v |-> radd[v[i], R(k - 1)]], 1, Len(v))], 1, n)

Tensors(d) ==
    {[rank |-> 1, rows |-> <<v>>] : v \in Vectors(d, XVals)}
    \cup {[rank |-> 2, rows |-> BatchOf(v, n)] : v \in Vectors(d, XVals), n \in 1..MaxBatch}

\* Options: <<>> is Python's None, <<v>> a given value.
Some(S) == {<<v>> : v \in S}

-----------------------------------------------------------------------------
(* real_nvp_element and the module-level generate_mask.                    *)

\* generate_mask(dim): 1 at the even (0-based) indices; index i here is i-1 there.
generate_mask(dim) == Vec([i \in 1..dim |-> IF (i - 1) % 2 = 0 THEN R(1) ELSE R(0)])

\* The value of eps when the caller passes none (1e-8 in the source, 1/16 on
\* the model's grid: small against every s = 2^z the model produces, not zero).
DefaultEps == <<1, 16>>

\* real_nvp_element.__init__
real_nvp_element_init(dim, f_log_s, f_t, mask, eps, clip) ==
    [cls |-> "real_nvp_element",
     mask |-> IF mask = <<>> THEN generate_mask(dim) ELSE mask[1],
     f_log_s |-> f_log_s, f_t |-> f_t, eps |-> eps, clip |-> clip]

\* log_s after the optional clamp of get_s, and s = torch.exp(log_s).
clamp[clip \in Seq(Int), log_s \in Seq(Int)] ==
    IF clip # <<>>
    THEN SubSeq([i \in DOMAIN log_s |-> cliptanh[clip[1], log_s[i]]], 1, Len(log_s))
    ELSE log_s
vexp[log_s \in Seq(Int)] == SubSeq([i \in DOMAIN log_s |-> exp2[log_s[i]]], 1, Len(log_s))

\* real_nvp_element.get_s on one sample: it masks its argument itself.
get_s(self, x) ==
    CHOOSE r \in {[s |-> vexp[log_s], log_s |-> log_s] :
                    log_s \in {clamp[self.clip, NetInt(self.f_log_s, VMul(self.mask, x))]}} : TRUE

\* Mutant of log_det_J_of: the sum runs over the kept features (log_s * b).
log_det_J_of_kept(log_s, b) == SeqSum(VMul(VInt(log_s), b))

\* The log_det_J of real_nvp_element.forward: torch.sum(log_s * (1-b), dim=-1).
log_det_J_of(log_s, b) == SeqSum(VMul(VInt(log_s), VCompl(b)))

\* y = b * x + (1 - b) * (x * s + t)
affine[b \in RatSeq, x \in RatSeq, s \in RatSeq, t \in RatSeq] ==
    vadd[vmul[b, x], vmul[vcompl[b], vadd[vmul[x, s], t]]]

\* x = b * y + (1 - b) * (y - t) / (s + eps)
affine_inv[b \in RatSeq, y \in RatSeq, s \in RatSeq, t \in RatSeq, eps \in Rat] ==
    vadd[vmul[b, y], vdiv[vmul[vcompl[b], vsub[y, t]], vshift[s, eps]]]

\* Mutant of affine_inv: t is subtracted after the division by s + eps.
affine_inv_shift_last[b \in RatSeq, y \in RatSeq, s \in RatSeq, t \in RatSeq, eps \in Rat] ==
    vadd[vmul[b, y], vmul[vcompl[b], vsub[vdiv[y, vshift[s, eps]], t]]]

\* real_nvp_element.forward on one sample; s, log_s and t are its locals.
nvp_forward_sample(self, x) ==
    CHOOSE r \in {[y |-> affine[self.mask, x, g.s, t],
                   log_det_J |-> log_det_J_of(g.log_s, self.mask),
                   s |-> g.s, log_s |-> g.log_s, t |-> t] :
                    g \in {get_s(self, VMul(self.mask, x))},
                    t \in {NetReal(self.f_t, VMul(self.mask, x))}} : TRUE

\* Mutant of nvp_inverse_sample: t is subtracted after the division by s + eps.
nvp_inverse_sample_shift_last(self, y) ==
    CHOOSE r \in {[x |-> affine_inv_shift_last[self.mask, y, g.s, t, self.eps],
                   s |-> g.s, t |-> t] :
                    g \in {get_s(self, VMul(self.mask, y))},
                    t \in {NetReal(self.f_t, VMul(self.mask, y))}} : TRUE

\* real_nvp_element.inverse on one sample; s and t are its locals.
nvp_inverse_sample(self, y) ==
    CHOOSE r \in {[x |-> affine_inv[self.mask, y, g.s, t, self.eps],
                   s |-> g.s, t |-> t] :
                    g \in {get_s(self, VMul(self.mask, y))},
                    t \in {NetReal(self.f_t, VMul(self.mask, y))}} : TRUE

\* forward / inverse on a tensor: the mask broadcasts over the batch axis, so
\* every sample is transformed on its own.  The result holds, per sample, the
\* output and the locals of the call.
real_nvp_element_forward(self, x) ==
    SubSeq([k \in DOMAIN x.rows |-> nvp_forward_sample(self, x.rows[k])], 1, Len(x.rows))

real_nvp_element_inverse(self, y) ==
    SubSeq([k \in DOMAIN y.rows |-> nvp_inverse_sample(self, y.rows[k])], 1, Len(y.rows))

\* The tensor of the field f (y or x) of a per-sample result.
YOf(rank, res) == [rank |-> rank, rows |-> SubSeq([k \in DOMAIN res |-> res[k].y], 1, Len(res))]
XOf(rank, res) == [rank |-> rank, rows |-> SubSeq([k \in DOMAIN res |-> res[k].x], 1, Len(res))]

EpsVals == {R(0), DefaultEps}
ClipVals == {<<>>, <<1>>, <<2>>}

\* The real_nvp_element objects a caller can construct.
NvpObjects ==
    UNION {{real_nvp_element_init(d, fs, ft, m, e, c) :
                fs \in NetParams, ft \in NetParamsT,
                m \in {<<>>} \cup Some(BinaryMasks(d)),
                e \in EpsVals, c \in ClipVals} : d \in 1..MaxDim}

InitNvp ==
    /\ nvp \in NvpObjects
    /\ nvp_io = [op |-> "init"]
    /\ cnvp = None /\ cnvp_io = None /\ nice = None /\ nice_io = None
    /\ plu = None /\ plu_io = None /\ dist = None /\ dist_io = None
    /\ muvar = None /\ muvar_io = None /\ ires = None /\ frames = None

\* y, log_det_J = nvp.forward(x): fwd holds, per sample, y, log_det_J and the
\* locals s, log_s, t of the call.
NvpForward ==
    /\ nvp_io.op = "init"
    /\ \E x \in Tensors(Len(nvp.mask)) :
         nvp_io' = [op |-> "forward", x |-> x, fwd |-> real_nvp_element_forward(nvp, x)]
    /\ UNCHANGED <<nvp, cnvp, cnvp_io, nice, nice_io, plu, plu_io, dist, dist_io,
                   muvar, muvar_io, ires, frames>>

\* x_inv = nvp.inverse(y), y the output of the last forward call: inv holds,
\* per sample, x and the locals s, t of the call.
NvpInverse ==
    /\ nvp_io.op = "forward"
    /\ nvp_io' = [op |-> "inverse", x |-> nvp_io.x, fwd |-> nvp_io.fwd,
                  inv |-> real_nvp_element_inverse(nvp, YOf(nvp_io.x.rank, nvp_io.fwd))]
    /\ UNCHANGED <<nvp, cnvp, cnvp_io, nice, nice_io, plu, plu_io, dist, dist_io,
                   muvar, muvar_io, ires, frames>>

NextNvp == NvpForward \/ NvpInverse

SpecNvp == InitNvp /\ [][NextNvp]_vars

-----------------------------------------------------------------------------
(* Claims about real_nvp_element (specification SpecNvp).                  *)

\* The Jacobian of forward at the sample x by unit difference quotients:
\* J[i][j] = forward(x + e_j)[i] - forward(x)[i].  The quotient is the exact
\* partial derivative wherever y[i] is affine in x[j]: everywhere except the
\* block (i transformed, j kept), which lies below the block diagonal and does
\* not enter the determinant when the block (i kept, j transformed) is zero.
JacobianFD(self, x) ==
    LET d == Len(x)
        y0 == nvp_forward_sample(self, x).y
    IN  Vec([i \in 1..d |->
            Vec([j \in 1..d |-> RSub(nvp_forward_sample(self, VAdd(x, Unit(d, j))).y[i], y0[i])])])

Transformed(b) == {i \in DOMAIN b : b[i] = R(0)}
Kept(b) == {i \in DOMAIN b : b[i] = R(1)}

\* The sum of the integer sequence f over the indices in S.
SumOver(f, S) == IntSum(Vec([i \in 1..Len(f) |-> IF i \in S THEN f[i] ELSE 0]))

\* C1: real_nvp_element round trip.  After y = forward(x) and inverse(y), for
\* every sample: the kept half of y is the kept half of x (b*y = b*x); inverse
\* recomputed the s and t forward used; every kept feature is recovered
\* exactly and every transformed feature satisfies x_inv * (s + eps) = x * s,
\* so x_inv = x exactly when eps = 0 (and the error is |x| eps / (s + eps)
\* otherwise).
NvpRoundTrip ==
    nvp_io.op = "inverse" =>
        \A k \in DOMAIN nvp_io.x.rows :
            LET b == nvp.mask
                x == nvp_io.x.rows[k]
                f == nvp_io.fwd[k]
                v == nvp_io.inv[k]
            IN  /\ VMul(b, f.y) = VMul(b, x)
                /\ v.s = f.s
                /\ v.t = f.t
                /\ \A i \in Kept(b) : v.x[i] = x[i]
                /\ \A i \in Transformed(b) :
                       RMul(v.x[i], RAdd(f.s[i], nvp.eps)) = RMul(x[i], f.s[i])
                /\ (nvp.eps = R(0) => v.x = x)
                /\ Len(nvp_io.inv) = Len(nvp_io.x.rows)

\* Witness of C1: an exact round trip (eps = 0) through a layer that keeps one
\* feature and rescales and shifts another, non-zero, one.
NvpRoundTripWitness ==
    /\ nvp_io.op = "inverse"
    /\ nvp.eps = R(0)
    /\ Kept(nvp.mask) # {}
    /\ \E i \in Transformed(nvp.mask) :
          /\ nvp_io.fwd[1].s[i] # R(1)
          /\ nvp_io.fwd[1].t[i] # R(0)
          /\ nvp_io.x.rows[1][i] # R(0)
          /\ nvp_io.fwd[1].y[i] # nvp_io.x.rows[1][i]
    /\ nvp_io.inv[1].x = nvp_io.x.rows[1]

\* C4: log_det_J of real_nvp_element.forward.  For every sample, log_det_J is
\* the sum of log_s over the features with b = 0 only; that log_s is the value
\* that was exponentiated to the s used in y (the clamped one, of magnitude at
\* most clip, when clip is set); and log_det_J is the log of the absolute
\* determinant of the Jacobian of forward: |det J| = exp(log_det_J).
NvpLogDet ==
    nvp_io.op = "forward" =>
        \A k \in DOMAIN nvp_io.x.rows :
            LET b == nvp.mask
                x == nvp_io.x.rows[k]
                f == nvp_io.fwd[k]
            IN  /\ f.log_det_J = R(SumOver(f.log_s, Transformed(b)))
                /\ \A i \in DOMAIN b : f.s[i] = Exp(f.log_s[i])
                /\ \A i \in Transformed(b) : f.y[i] = RAdd(RMul(x[i], f.s[i]), f.t[i])
                /\ \A i \in Kept(b) : f.y[i] = x[i]
                /\ (nvp.clip # <<>> => \A i \in DOMAIN b : Abs(f.log_s[i]) <= nvp.clip[1])
                /\ RAbs(Det(JacobianFD(nvp, x))) = Exp(f.log_det_J[1])

\* Witness of C4: a forward call with clip set in which a kept feature has a
\* non-zero log_s (which must not be counted) and the log-det is not zero.
NvpLogDetWitness ==
    /\ nvp_io.op = "forward"
    /\ nvp.clip # <<>>
    /\ \E i \in Kept(nvp.mask) : nvp_io.fwd[1].log_s[i] # 0
    /\ \E i \in Transformed(nvp.mask) : nvp_io.fwd[1].log_s[i] # 0
    /\ nvp_io.fwd[1].log_det_J # R(0)

-----------------------------------------------------------------------------
(* NICE.                                                                   *)

\* The function m of a NICE layer: a caller-supplied deterministic function,
\* drawn here from the affine networks and from the (non-linear) integer ones.
NetM(p, v) == IF p.nonlin THEN vint[netint[p.w, p.bias, v]] ELSE netreal[p.w, p.bias, v]

NetParamsM == [w : {1}, bias : {0, 1}, nonlin : BOOLEAN]

\* NICE.__init__
NICE_init(dim, m, mask) ==
    [cls |-> "NICE", mask |-> IF mask = <<>> THEN generate_mask(dim) ELSE mask[1], m |-> m]

\* x + c * h and y - c * h
shift_add[x \in RatSeq, c \in RatSeq, h \in RatSeq] == vadd[x, vmul[c, h]]
shift_sub[y \in RatSeq, c \in RatSeq, h \in RatSeq] == vsub[y, vmul[c, h]]

\* NICE.forward on one sample: mid is x after the first assignment.
NICE_forward_sample(self, x) ==
    CHOOSE r \in {[mid |-> x1,
                   y |-> shift_add[x1, self.mask, NetM(self.m, VMul(VCompl(self.mask), x1))]] :
                    x1 \in {shift_add[x, VCompl(self.mask), NetM(self.m, VMul(self.mask, x))]}} : TRUE

\* Mutant of NICE_inverse_sample: the two subtractions in the order of forward.
NICE_inverse_sample_forward_order(self, y) ==
    CHOOSE r \in {[mid |-> y1,
                   x |-> shift_sub[y1, self.mask, NetM(self.m, VMul(VCompl(self.mask), y1))]] :
                    y1 \in {shift_sub[y, VCompl(self.mask), NetM(self.m, VMul(self.mask, y))]}} : TRUE

\* NICE.inverse on one sample: mid is y after the first assignment.
NICE_inverse_sample(self, y) ==
    CHOOSE r \in {[mid |-> y1,
                   x |-> shift_sub[y1, VCompl(self.mask), NetM(self.m, VMul(self.mask, y1))]] :
                    y1 \in {shift_sub[y, self.mask, NetM(self.m, VMul(VCompl(self.mask), y))]}} : TRUE

NICE_forward(self, x) ==
    SubSeq([k \in DOMAIN x.rows |-> NICE_forward_sample(self, x.rows[k])], 1, Len(x.rows))

NICE_inverse(self, y) ==
    SubSeq([k \in DOMAIN y.rows |-> NICE_inverse_sample(self, y.rows[k])], 1, Len(y.rows))

\* NICE.logdet
NICE_logdet(self) == 0

NiceObjects ==
    UNION {{NICE_init(d, m, mask) : m \in NetParamsM, mask \in {<<>>} \cup Some(BinaryMasks(d))} :
            d \in 1..MaxDim}

InitNice ==
    /\ nice \in NiceObjects
    /\ nice_io = [op |-> "init"]
    /\ nvp = None /\ nvp_io = None /\ cnvp = None /\ cnvp_io = None
    /\ plu = None /\ plu_io = None /\ dist = None /\ dist_io = None
    /\ muvar = None /\ muvar_io = None /\ ires = None /\ frames = None

\* y = nice.forward(x)
NiceForward ==
    /\ nice_io.op = "init"
    /\ \E x \in Tensors(Len(nice.mask)) :
         nice_io' = [op |-> "forward", x |-> x, fwd |-> NICE_forward(nice, x),
                     logdet |-> NICE_logdet(nice)]
    /\ UNCHANGED <<nice, nvp, nvp_io, cnvp, cnvp_io, plu, plu_io, dist, dist_io,
                   muvar, muvar_io, ires, frames>>

\* x_inv = nice.inverse(y), y the output of the last forward call
NiceInverse ==
    /\ nice_io.op = "forward"
    /\ nice_io' = [op |-> "inverse", x |-> nice_io.x, fwd |-> nice_io.fwd,
                   logdet |-> nice_io.logdet,
                   inv |-> NICE_inverse(nice, YOf(nice_io.x.rank, nice_io.fwd))]
    /\ UNCHANGED <<nice, nvp, nvp_io, cnvp, cnvp_io, plu, plu_io, dist, dist_io,
                   muvar, muvar_io, ires, frames>>

NextNice == NiceForward \/ NiceInverse

SpecNice == InitNice /\ [][NextNice]_vars

\* C2: NICE round trip.  After y = forward(x) and inverse(y), for every
\* sample: inverse first undoes forward's second half-step (its intermediate
\* is forward's intermediate x + (1-b) m(b x)) and then the first, and returns
\* exactly x.
NiceRoundTrip ==
    nice_io.op = "inverse" =>
        /\ Len(nice_io.inv) = Len(nice_io.x.rows)
        /\ \A k \in DOMAIN nice_io.x.rows :
              /\ nice_io.inv[k].mid = nice_io.fwd[k].mid
              /\ nice_io.inv[k].x = nice_io.x.rows[k]

\* Witness of C2: a round trip in which both half-steps of forward changed the
\* sample.
NiceRoundTripWitness ==
    /\ nice_io.op = "inverse"
    /\ nice_io.fwd[1].mid # nice_io.x.rows[1]
    /\ nice_io.fwd[1].y # nice_io.fwd[1].mid
    /\ nice_io.inv[1].x = nice_io.x.rows[1]

-----------------------------------------------------------------------------
(* combined_real_nvp.                                                      *)

\* Mutant of combined_real_nvp_init: nvp_2 is given the mask of nvp_1.
combined_real_nvp_init_same_mask(dim, f_log_s, f_t, mask, clip) ==
    CHOOSE self \in {[cls |-> "combined_real_nvp", mask |-> m,
                      nvp_1 |-> real_nvp_element_init(dim, f_log_s, f_t, <<m>>, DefaultEps, clip),
                      nvp_2 |-> real_nvp_element_init(dim, f_log_s, f_t, <<m>>, DefaultEps, clip)] :
                        m \in {IF mask = <<>> THEN generate_mask(dim) ELSE mask[1]}} : TRUE

\* combined_real_nvp.__init__: both elements share f_log_s and f_t, and get no
\* eps (so the default).
combined_real_nvp_init(dim, f_log_s, f_t, mask, clip) ==
    CHOOSE self \in {[cls |-> "combined_real_nvp", mask |-> m,
                      nvp_1 |-> real_nvp_element_init(dim, f_log_s, f_t, <<m>>, DefaultEps, clip),
                      nvp_2 |-> real_nvp_element_init(dim, f_log_s, f_t, <<VCompl(m)>>, DefaultEps, clip)] :
                        m \in {IF mask = <<>> THEN generate_mask(dim) ELSE mask[1]}} : TRUE

\* log_det_J_1 + log_det_J_2, per sample
ld_sum(f1, f2) == SubSeq([k \in DOMAIN f1 |-> radd[f1[k].log_det_J, f2[k].log_det_J]], 1, Len(f1))

\* combined_real_nvp.forward: f1 and f2 are the results of nvp_1 and nvp_2.
combined_real_nvp_forward(self, x) ==
    CHOOSE r \in {[f1 |-> f1, f2 |-> f2, log_det_J |-> ld_sum(f1, f2)] :
                    f1 \in {real_nvp_element_forward(self.nvp_1, x)},
                    f2 \in {real_nvp_element_forward(self.nvp_2,
                               YOf(x.rank, real_nvp_element_forward(self.nvp_1, x)))}} : TRUE

\* combined_real_nvp.inverse: i2 and i1 are the results of nvp_2.inverse and of
\* nvp_1.inverse, in the order of the calls.
combined_real_nvp_inverse(self, y) ==
    CHOOSE r \in {[i2 |-> i2,
                   i1 |-> real_nvp_element_inverse(self.nvp_1, XOf(y.rank, i2))] :
                    i2 \in {real_nvp_element_inverse(self.nvp_2, y)}} : TRUE

InitCnvp ==
    /\ \E d \in 1..MaxDim :
         \E fs \in NetParams, ft \in NetParamsT, c \in ClipVals,
            m \in {<<>>} \cup Some(BinaryMasks(d)) :
              /\ cnvp = combined_real_nvp_init(d, fs, ft, m, c)
              /\ cnvp_io = [op |-> "init", dim |-> d, mask |-> m]
    /\ nvp = None /\ nvp_io = None /\ nice = None /\ nice_io = None
    /\ plu = None /\ plu_io = None /\ dist = None /\ dist_io = None
    /\ muvar = None /\ muvar_io = None /\ ires = None /\ frames = None

\* y, log_det_J = cnvp.forward(x)
CnvpForward ==
    /\ cnvp_io.op = "init"
    /\ \E x \in Tensors(cnvp_io.dim) :
         cnvp_io' = [op |-> "forward", dim |-> cnvp_io.dim, mask |-> cnvp_io.mask,
                     x |-> x, fwd |-> combined_real_nvp_forward(cnvp, x)]
    /\ UNCHANGED <<cnvp, nvp, nvp_io, nice, nice_io, plu, plu_io, dist, dist_io,
                   muvar, muvar_io, ires, frames>>

\* x_inv = cnvp.inverse(y), y the output of the last forward call
CnvpInverse ==
    /\ cnvp_io.op = "forward"
    /\ cnvp_io' = [op |-> "inverse", dim |-> cnvp_io.dim, mask |-> cnvp_io.mask,
                   x |-> cnvp_io.x, fwd |-> cnvp_io.fwd,
                   inv |-> combined_real_nvp_inverse(cnvp, YOf(cnvp_io.x.rank, cnvp_io.fwd.f2))]
    /\ UNCHANGED <<cnvp, nvp, nvp_io, nice, nice_io, plu, plu_io, dist, dist_io,
                   muvar, muvar_io, ires, frames>>

NextCnvp == CnvpForward \/ CnvpInverse

SpecCnvp == InitCnvp /\ [][NextCnvp]_vars

\* C5: mask complementarity in combined_real_nvp.  The default mask is 1 at
\* the even (0-based) indices and 0 at the odd ones; the masks of nvp_1 and
\* nvp_2 sum to all-ones and multiply to all-zeros; in a forward call every
\* feature is transformed by exactly one element and kept by the other
\* (log_det_J is the sum of the two); inverse runs nvp_2.inverse first (it
\* recomputes the s and t nvp_2.forward used and returns the features nvp_2
\* kept as nvp_1.forward left them) and nvp_1.inverse second (which keeps the
\* features nvp_1 kept, so that they satisfy x_inv * (s2 + eps) = x * s2).
CnvpMasks ==
    LET m1 == cnvp.nvp_1.mask
        m2 == cnvp.nvp_2.mask
        d == cnvp_io.dim
    IN  /\ Len(m1) = d /\ Len(m2) = d
        /\ (cnvp_io.mask = <<>> =>
               \A i \in 1..d : m1[i] = (IF (i - 1) % 2 = 0 THEN R(1) ELSE R(0)))
        /\ \A i \in 1..d : RAdd(m1[i], m2[i]) = R(1) /\ RMul(m1[i], m2[i]) = R(0)
        /\ \A i \in 1..d : (i \in Transformed(m1)) # (i \in Transformed(m2))
        /\ \A i \in 1..d : (i \in Kept(m1)) <=> (i \in Transformed(m2))
        /\ (cnvp_io.op \in {"forward", "inverse"} =>
              \A k \in DOMAIN cnvp_io.x.rows :
                 LET x == cnvp_io.x.rows[k]
                     f1 == cnvp_io.fwd.f1[k]
                     f2 == cnvp_io.fwd.f2[k]
                 IN  /\ \A i \in Kept(m1) :
                            /\ f1.y[i] = x[i]
                            /\ f2.y[i] = RAdd(RMul(x[i], f2.s[i]), f2.t[i])
                     /\ \A i \in Kept(m2) :
                            /\ f1.y[i] = RAdd(RMul(x[i], f1.s[i]), f1.t[i])
                            /\ f2.y[i] = f1.y[i]
                     /\ cnvp_io.fwd.log_det_J[k] = RAdd(f1.log_det_J, f2.log_det_J))
        /\ (cnvp_io.op = "inverse" =>
              \A k \in DOMAIN cnvp_io.x.rows :
                 LET x == cnvp_io.x.rows[k]
                     f1 == cnvp_io.fwd.f1[k]
                     f2 == cnvp_io.fwd.f2[k]
                     i2 == cnvp_io.inv.i2[k]
                     i1 == cnvp_io.inv.i1[k]
                 IN  /\ i2.s = f2.s /\ i2.t = f2.t
                     /\ \A i \in Kept(m2) : i2.x[i] = f1.y[i]
                     /\ \A i \in Kept(m1) :
                            /\ i1.x[i] = i2.x[i]
                            /\ RMul(i1.x[i], RAdd(f2.s[i], DefaultEps)) = RMul(x[i], f2.s[i])
                     /\ \A i \in Kept(m2) :
                            RMul(i1.x[i], RAdd(i1.s[i], DefaultEps)) = RSub(i2.x[i], i1.t[i]))

\* Witness of C5: a forward and inverse call on a layer with the default mask
\* of dimension at least 2, in which each element changed the feature it
\* transforms.
CnvpMasksWitness ==
    /\ cnvp_io.op = "inverse"
    /\ cnvp_io.mask = <<>>
    /\ cnvp_io.dim >= 2
    /\ cnvp_io.fwd.f1[1].y[2] # cnvp_io.x.rows[1][2]
    /\ cnvp_io.fwd.f2[1].y[1] # cnvp_io.x.rows[1][1]
    /\ cnvp_io.fwd.f2[1].y[2] = cnvp_io.fwd.f1[1].y[2]

-----------------------------------------------------------------------------
(* PLUMatrix.                                                              *)

\* Largest dimension of a PLUMatrix.
MaxPluDim == 2

\* torch.log on the grid of Exp: the exponent of a power of two.
Log(q) == CHOOSE z \in -4..4 : exp2[z] = q

\* A d x d matrix as a tuple of rows.
Matrix(d, e(_, _)) ==
    SubSeq([i \in 1..d |-> SubSeq([j \in 1..d |-> e(i, j)], 1, d)], 1, d)

madd[A \in RatMat, B \in RatMat] ==
    Matrix(Len(A), LAMBDA i, j : radd[A[i][j], B[i][j]])
\* torch.tril(M, diagonal) and torch.triu(M, diagonal)
tril[M \in RatMat, diagonal \in Int] ==
    Matrix(Len(M), LAMBDA i, j : IF j - i <= diagonal THEN M[i][j] ELSE R(0))
triu[M \in RatMat, diagonal \in Int] ==
    Matrix(Len(M), LAMBDA i, j : IF j - i >= diagonal THEN M[i][j] ELSE R(0))
\* torch.diag of a vector, and of a matrix
diag[v \in RatSeq] ==
    Matrix(Len(v), LAMBDA i, j : IF i = j THEN v[i] ELSE R(0))
diagonal_of[M \in RatMat] == SubSeq([i \in 1..Len(M) |-> M[i][i]], 1, Len(M))

\* The outcomes of sampling_W(dim): the factors P, L, U of an invertible
\* matrix, P a permutation matrix, L unit lower triangular, U upper
\* triangular with a nonzero diagonal.
LUVals == {0, 1}
DiagVals == {<<-2, 1>>, <<1, 2>>}
Perms(d) == {f \in [1..d -> 1..d] : \A i, j \in 1..d : f[i] = f[j] => i = j}
sampling_W(dim) ==
    {[P |-> Matrix(dim, LAMBDA i, j : IF f[i] = j THEN R(1) ELSE R(0)),
      L |-> Matrix(dim, LAMBDA i, j : IF i = j THEN R(1) ELSE IF j < i THEN R(a) ELSE R(0)),
      U |-> Matrix(dim, LAMBDA i, j : IF i = j THEN dg ELSE IF j > i THEN R(u) ELSE R(0))] :
        f \in Perms(dim), a \in LUVals, u \in LUVals, dg \in DiagVals}

\* PLUMatrix.__init__ and _initialize, for one outcome w of sampling_W.
PLUMatrix_initialize(dim, positive_s, eps, w) ==
    [P |-> w.P,
     _L |-> w.L,
     _U |-> triu[w.U, 1],
     log_s |-> IF positive_s
               THEN SubSeq([i \in 1..dim |-> R(Log(rabs[w.U[i][i]]))], 1, dim)
               ELSE diagonal_of[w.U],
     I |-> diag[SubSeq([i \in 1..dim |-> R(1)], 1, dim)],
     positive_s |-> positive_s,
     eps |-> eps]

\* L() with the stored _L returned as it is, unit diagonal not enforced.
PLU_L_as_stored(self) == self._L

PLU_L(self) == madd[tril[self._L, -1], self.I]

PLU_U(self) == triu[self._U, 1]

\* The diagonal scale s that W() builds.
PLU_s(self) ==
    IF self.positive_s
    THEN SubSeq([i \in DOMAIN self.log_s |-> exp2[self.log_s[i][1]]], 1, Len(self.log_s))
    ELSE self.log_s

PLU_W(self) ==
    matmul[matmul[self.P, PLU_L(self)], madd[PLU_U(self), diag[PLU_s(self)]]]

\* logdet() returns a logarithm; the model carries it by its antilogarithm
\* (antilog 0 is log 0 = -inf).  A sum of logarithms is the logarithm of the
\* product.
PLU_logdet(self) ==
    IF self.positive_s
    THEN [antilog |-> exp2[intsum[SubSeq([i \in DOMAIN self.log_s |-> self.log_s[i][1]],
                                         1, Len(self.log_s))]]]
    ELSE [antilog |-> seqprod[SubSeq([i \in DOMAIN self.log_s |->
                                        radd[rabs[self.log_s[i]], self.eps]],
                                     1, Len(self.log_s))]]

\* Values a training step can leave in an entry of a raw parameter.
TrainVals == {-1, 0, 2}

InitPlu ==
    /\ \E dim \in 1..MaxPluDim :
         \E positive_s \in BOOLEAN, eps \in EpsVals, w \in sampling_W(dim) :
            plu = PLUMatrix_initialize(dim, positive_s, eps, w)
    /\ plu_io = [op |-> "init"]
    /\ nvp = None /\ nvp_io = None /\ cnvp = None /\ cnvp_io = None
    /\ nice = None /\ nice_io = None /\ dist = None /\ dist_io = None
    /\ muvar = None /\ muvar_io = None /\ ires = None /\ frames = None

\* A training step (an optimizer update of the nn.Parameters _L, _U and
\* log_s): it writes row i, column j of _L and of _U and entry i of log_s.
\* P, I, positive_s and eps are not parameters and stay.
PluTrain ==
    /\ plu_io.op = "init"
    /\ \E i \in DOMAIN plu._L, j \in DOMAIN plu._L :
         \E vL \in TrainVals, vU \in TrainVals, vs \in TrainVals :
            plu' = [plu EXCEPT !._L[i][j] = R(vL), !._U[i][j] = R(vU),
                               !.log_s[i] = R(vs)]
    /\ plu_io' = [op |-> "train"]
    /\ UNCHANGED <<nvp, nvp_io, cnvp, cnvp_io, nice, nice_io, dist, dist_io,
                   muvar, muvar_io, ires, frames>>

\* A caller evaluates W() and logdet().
PluEval ==
    /\ plu_io.op \in {"init", "train"}
    /\ plu_io' = [op |-> "eval", after |-> plu_io.op,
                  W |-> PLU_W(plu), logdet |-> PLU_logdet(plu)]
    /\ UNCHANGED <<plu, nvp, nvp_io, cnvp, cnvp_io, nice, nice_io, dist, dist_io,
                   muvar, muvar_io, ires, frames>>

NextPlu == PluTrain \/ PluEval

SpecPlu == InitPlu /\ [][NextPlu]_vars

\* |det(W())| by direct determinant evaluation, and the product of the |s_i|.
AbsDetW == rabs[Det(plu_io.W)]
AbsProdS ==
    LET s == PLU_s(plu)
    IN  seqprod[SubSeq([i \in DOMAIN s |-> rabs[s[i]]], 1, Len(s))]

\* Two logarithms, given by their antilogarithms a and b, agree within a
\* tolerance of log 2; -inf agrees with -inf only.
LogClose(a, b) ==
    IF a[1] = 0 \/ b[1] = 0 THEN a = b
    ELSE RLe(a, RMul(R(2), b)) /\ RLe(b, RMul(R(2), a))

\* L() is unit lower triangular and U() strictly upper triangular.
PluTriangular ==
    LET l == PLU_L(plu)
        u == PLU_U(plu)
    IN  \A i \in DOMAIN l, j \in DOMAIN l :
           /\ (i = j => l[i][j] = R(1))
           /\ (j > i => l[i][j] = R(0))
           /\ (j <= i => u[i][j] = R(0))
           /\ (j < i => l[i][j] = plu._L[i][j])
           /\ (j > i => u[i][j] = plu._U[i][j])

-----------------------------------------------------------------------------
(* MuVar: the lazily initialized mean / variance estimator.                *)

\* Largest number of forward calls on one MuVar instance.
MaxCalls == 3

\* The ranks of the tensors passed to forward; a tensor is given by its shape.
Ranks == 0..5
ShapeOfRank(r) == SubSeq([i \in 1..r |-> 2], 1, r)

\* No attribute mu_var on the instance.
Unbound == [cls |-> "unbound"]

MuVar_init(feature_in, feature_out) ==
    [initialized |-> FALSE, feature_in |-> feature_in, feature_out |-> feature_out,
     mu_var |-> Unbound]

\* The sub-estimator constructors; serial tells one constructed object from
\* another.
MuVarSub(cls, self, serial) ==
    [cls |-> cls, feature_in |-> self.feature_in, feature_out |-> self.feature_out,
     serial |-> serial]

\* _initialize without the assignment initialized = True.
MuVar_initialize_flag_unset(self, shape_y, serial) ==
    IF Len(shape_y) = 0 THEN [self |-> self, raised |-> "ValueError", built |-> FALSE]
    ELSE IF Len(shape_y) = 1 THEN [self |-> self, raised |-> "IndexError", built |-> FALSE]
    ELSE IF Len(shape_y) = 2
    THEN [self |-> [self EXCEPT !.mu_var = MuVarSub("MuVarVector", self, serial)],
          raised |-> "", built |-> TRUE]
    ELSE IF Len(shape_y) = 3
    THEN [self |-> [self EXCEPT !.mu_var = MuVarSub("MuVar1d", self, serial)],
          raised |-> "", built |-> TRUE]
    ELSE IF Len(shape_y) = 4
    THEN [self |-> [self EXCEPT !.mu_var = MuVarSub("MuVar2d", self, serial)],
          raised |-> "", built |-> TRUE]
    ELSE [self |-> self, raised |-> "", built |-> FALSE]

\* _initialize(y).  batch, *shape = y.shape raises ValueError on a rank-0
\* tensor, and shape[0] raises IndexError on a rank-1 tensor, both before
\* initialized is set.  len(shape) is the rank minus one.
MuVar_initialize(self, shape_y, serial) ==
    IF Len(shape_y) = 0 THEN [self |-> self, raised |-> "ValueError", built |-> FALSE]
    ELSE IF Len(shape_y) = 1 THEN [self |-> self, raised |-> "IndexError", built |-> FALSE]
    ELSE IF Len(shape_y) = 2
    THEN [self |-> [self EXCEPT !.initialized = TRUE,
                                !.mu_var = MuVarSub("MuVarVector", self, serial)],
          raised |-> "", built |-> TRUE]
    ELSE IF Len(shape_y) = 3
    THEN [self |-> [self EXCEPT !.initialized = TRUE,
                                !.mu_var = MuVarSub("MuVar1d", self, serial)],
          raised |-> "", built |-> TRUE]
    ELSE IF Len(shape_y) = 4
    THEN [self |-> [self EXCEPT !.initialized = TRUE,
                                !.mu_var = MuVarSub("MuVar2d", self, serial)],
          raised |-> "", built |-> TRUE]
    ELSE [self |-> [self EXCEPT !.initialized = TRUE], raised |-> "", built |-> FALSE]

\* forward(y): the instance after the call and what the call did.  The call
\* of the bound sub-estimator is recorded by its class; reading an unbound
\* mu_var raises AttributeError.
MuVar_forward(self, shape_y, serial) ==
    CHOOSE r \in {[self |-> i.self, built |-> i.built,
                   raised |-> IF i.raised # "" THEN i.raised
                              ELSE IF i.self.mu_var = Unbound THEN "AttributeError"
                              ELSE "",
                   called |-> IF i.raised # "" THEN Unbound ELSE i.self.mu_var] :
                    i \in {IF ~self.initialized
                           THEN MuVar_initialize(self, shape_y, serial)
                           ELSE [self |-> self, raised |-> "", built |-> FALSE]}} : TRUE

FeaturePairs == {<<2, 1>>, <<3, 1>>}

InitMuVar ==
    /\ \E f \in FeaturePairs : muvar = MuVar_init(f[1], f[2])
    /\ muvar_io = [calls |-> <<>>, built |-> 0]
    /\ nvp = None /\ nvp_io = None /\ cnvp = None /\ cnvp_io = None
    /\ nice = None /\ nice_io = None /\ plu = None /\ plu_io = None
    /\ dist = None /\ dist_io = None /\ ires = None /\ frames = None

\* One forward call; muvar_io keeps the calls made so far and the number of
\* sub-estimators constructed.
MuVarForward ==
    /\ Len(muvar_io.calls) < MaxCalls
    /\ \E rank \in Ranks :
         \E r \in {MuVar_forward(muvar, ShapeOfRank(rank), muvar_io.built + 1)} :
            /\ muvar' = r.self
            /\ muvar_io' = [calls |-> Append(muvar_io.calls,
                                             [rank |-> rank, raised |-> r.raised,
                                              built |-> r.built, called |-> r.called]),
                            built |-> muvar_io.built + (IF r.built THEN 1 ELSE 0)]
    /\ UNCHANGED <<nvp, nvp_io, cnvp, cnvp_io, nice, nice_io, plu, plu_io,
                   dist, dist_io, ires, frames>>

NextMuVar == MuVarForward

SpecMuVar == InitMuVar /\ [][NextMuVar]_vars

\* The sub-estimator class that a call of the given rank selects.
VariantOfRank(rank) ==
    IF rank = 2 THEN "MuVarVector" ELSE IF rank = 3 THEN "MuVar1d" ELSE "MuVar2d"

\* C6 as stated: over any sequence of forward calls, mu_var is constructed
\* exactly once, by the first call, with the variant chosen by that call's
\* rank; no later call constructs or replaces it.
MuVarBuiltByFirstCall ==
    Len(muvar_io.calls) >= 1 =>
        /\ muvar_io.calls[1].built
        /\ muvar_io.built = 1
        /\ muvar.mu_var # Unbound
        /\ muvar.mu_var.serial = 1
        /\ muvar.mu_var.cls = VariantOfRank(muvar_io.calls[1].rank)

\* C6, amended: over any sequence of forward calls, mu_var is constructed at
\* most once.  A call constructs it exactly when its rank is 2, 3 or 4 and
\* every earlier call had rank 0 or 1 (those raise before initialized is
\* set); the variant is chosen by that call's rank, and no later call
\* constructs or replaces it.  When the first call of rank at least 2 has
\* rank 5 or more, initialized is set and mu_var is never constructed.
MuVarBuiltOnce ==
    LET calls == muvar_io.calls
    IN  /\ muvar_io.built <= 1
        /\ \A k \in DOMAIN calls :
              /\ calls[k].built <=>
                    /\ calls[k].rank \in {2, 3, 4}
                    /\ \A j \in 1..(k - 1) : calls[j].rank <= 1
              /\ calls[k].built =>
                    /\ muvar.mu_var.cls = VariantOfRank(calls[k].rank)
                    /\ muvar.mu_var.serial = 1
                    /\ \A j \in k..Len(calls) : calls[j].called = muvar.mu_var
        /\ muvar.initialized <=> \E k \in DOMAIN calls : calls[k].rank >= 2
        /\ (muvar.mu_var # Unbound) <=> muvar_io.built = 1

\* Witness of C6: a rank-1 call that raised, then a rank-3 call that
\* constructed a MuVar1d, then a rank-2 call served by that same MuVar1d.
MuVarBuiltOnceWitness ==
    /\ Len(muvar_io.calls) = 3
    /\ muvar_io.calls[1].rank = 1 /\ muvar_io.calls[1].raised = "IndexError"
    /\ muvar_io.calls[2].rank = 3 /\ muvar_io.calls[2].built
    /\ muvar_io.calls[3].rank = 2 /\ ~muvar_io.calls[3].built
    /\ muvar_io.calls[3].called.cls = "MuVar1d"
    /\ muvar.mu_var.serial = 1

\* C11: in every state reached by forward calls with inputs of rank at least
\* 2, initialized = True implies that a sub-estimator mu_var is bound, and no
\* forward call fails for lack of a sub-estimator.
MuVarInitializedBound ==
    (\A k \in DOMAIN muvar_io.calls : muvar_io.calls[k].rank >= 2) =>
        /\ muvar.initialized => muvar.mu_var # Unbound
        /\ \A k \in DOMAIN muvar_io.calls : muvar_io.calls[k].raised # "AttributeError"

\* C11, where the code meets it: after calls of rank at least 2, initialized
\* is set, and mu_var is bound exactly when the first call had rank 2, 3 or
\* 4; when it had rank 5 or more, mu_var is unbound and every call raised
\* AttributeError.
MuVarBoundBySupportedRank ==
    LET calls == muvar_io.calls
    IN  (calls # <<>> /\ \A k \in DOMAIN calls : calls[k].rank >= 2) =>
            /\ muvar.initialized
            /\ (muvar.mu_var # Unbound) <=> calls[1].rank \in {2, 3, 4}
            /\ \A k \in DOMAIN calls :
                  (calls[k].raised = "AttributeError") <=> calls[1].rank >= 5
            /\ \A k \in DOMAIN calls : calls[k].raised \in {"", "AttributeError"}

\* The state of C11: a first call of rank 5 set initialized and bound
\* nothing, and a later call of rank 2 failed for lack of a sub-estimator.
MuVarInitializedUnbound ==
    /\ Len(muvar_io.calls) >= 2
    /\ muvar_io.calls[1].rank = 5
    /\ muvar_io.calls[2].rank = 2 /\ muvar_io.calls[2].raised = "AttributeError"
    /\ muvar.initialized /\ muvar.mu_var = Unbound

-----------------------------------------------------------------------------
(* NormalDistribution.logp and LaplaceDistribution.logp.                   *)

\* Largest size of one axis of an input tensor of logp.
MaxAxis == 2

\* A tensor is its shape and its elements in row-major order.
numel[shape \in Seq(Nat)] ==
    IF shape = <<>> THEN 1 ELSE Head(shape) * numel[Tail(shape)]
Shapes(r) == [1..r -> 0..MaxAxis]
TensorOf(shape, x0) ==
    [shape |-> SubSeq(shape, 1, Len(shape)),
     data |-> SubSeq([k \in 1..numel[shape] |-> R(x0 + k - 1)], 1, numel[shape])]

Returned(t) == [raised |-> "", value |-> t]
Raised(e) == [raised |-> e, value |-> None]

\* t.sum(dim=-1) of a rank-2 tensor.
sum_last(t) ==
    [shape |-> <<t.shape[1]>>,
     data |-> SubSeq([i \in 1..t.shape[1] |->
                        seqsum[SubSeq(t.data, (i - 1) * t.shape[2] + 1, i * t.shape[2])]],
                     1, t.shape[1])]

\* t.reshape(batch, -1).sum(dim=-1), batch = t.shape[0].  torch infers the
\* axis given as -1 from the number of elements, and raises RuntimeError when
\* the given axes multiply to 0 (the -1 axis could be of any size).
reshape_sum(t, batch) ==
    IF batch = 0 THEN Raised("RuntimeError")
    ELSE Returned(sum_last([shape |-> <<batch, numel[t.shape] \div batch>>,
                            data |-> t.data]))

\* The part of logp after logps is computed, the same in both classes.
logp_by_rank(x, logps) ==
    IF Len(x.shape) = 1 THEN Raised("Exception")
    ELSE IF Len(x.shape) = 2 THEN Returned(sum_last(logps))
    ELSE IF Len(x.shape) = 3 THEN reshape_sum(logps, x.shape[1])
    ELSE IF Len(x.shape) = 4 THEN reshape_sum(logps, x.shape[1])
    ELSE Raised("Exception")

\* logps = -1 * (x ** 2)
normal_logps[v \in Rat] == rneg[rmul[v, v]]
\* Laplace(mu, beta).log_prob: -log(2 beta) - |x - mu| / beta
laplace_logps[mu \in Rat, beta \in Rat, v \in Rat] ==
    radd[R(-Log(rmul[R(2), beta])), rneg[rdiv[rabs[radd[v, rneg[mu]]], beta]]]

NormalDistribution_init == [cls |-> "NormalDistribution"]
LaplaceDistribution_init(mu, beta) ==
    [cls |-> "LaplaceDistribution", mu |-> mu, beta |-> beta,
     A |-> Log(rmul[R(2), beta])]

NormalDistribution_logp(self, x) ==
    CHOOSE r \in {logp_by_rank(x, logps) :
                    logps \in {[shape |-> x.shape,
                                data |-> SubSeq([k \in DOMAIN x.data |->
                                                   normal_logps[x.data[k]]],
                                                1, Len(x.data))]}} : TRUE

LaplaceDistribution_logp(self, x) ==
    CHOOSE r \in {logp_by_rank(x, logps) :
                    logps \in {[shape |-> x.shape,
                                data |-> SubSeq([k \in DOMAIN x.data |->
                                                   laplace_logps[self.mu, self.beta, x.data[k]]],
                                                1, Len(x.data))]}} : TRUE

\* The distributions a caller can construct: Laplace defaults to mu = 0,
\* beta = 1.0.
LaplaceParams == {<<R(0), R(1)>>, <<R(1), R(2)>>, <<R(0), <<1, 2>>>>}
DistRanks == 0..5

InitDist ==
    /\ \/ dist = NormalDistribution_init
       \/ \E q \in LaplaceParams : dist = LaplaceDistribution_init(q[1], q[2])
    /\ dist_io = [op |-> "init"]
    /\ nvp = None /\ nvp_io = None /\ cnvp = None /\ cnvp_io = None
    /\ nice = None /\ nice_io = None /\ plu = None /\ plu_io = None
    /\ muvar = None /\ muvar_io = None /\ ires = None /\ frames = None

NormalLogp ==
    /\ dist_io.op = "init"
    /\ dist.cls = "NormalDistribution"
    /\ \E rank \in DistRanks : \E shape \in Shapes(rank), x0 \in XVals :
         \E x \in {TensorOf(shape, x0)} :
            dist_io' = [op |-> "logp", x |-> x, out |-> NormalDistribution_logp(dist, x)]
    /\ UNCHANGED <<dist, nvp, nvp_io, cnvp, cnvp_io, nice, nice_io, plu, plu_io,
                   muvar, muvar_io, ires, frames>>

LaplaceLogp ==
    /\ dist_io.op = "init"
    /\ dist.cls = "LaplaceDistribution"
    /\ \E rank \in DistRanks : \E shape \in Shapes(rank), x0 \in XVals :
         \E x \in {TensorOf(shape, x0)} :
            dist_io' = [op |-> "logp", x |-> x, out |-> LaplaceDistribution_logp(dist, x)]
    /\ UNCHANGED <<dist, nvp, nvp_io, cnvp, cnvp_io, nice, nice_io, plu, plu_io,
                   muvar, muvar_io, ires, frames>>

NextDist == NormalLogp \/ LaplaceLogp

SpecDist == InitDist /\ [][NextDist]_vars

\* The element-wise log-density that the distribution at hand assigns to v.
ElementLogp(v) ==
    IF dist.cls = "NormalDistribution" THEN normal_logps[v]
    ELSE laplace_logps[dist.mu, dist.beta, v]

\* The multi-indices of the elements of batch element b of a tensor, and the
\* row-major position of a multi-index.
IndicesOf(shape, b) ==
    {idx \in [1..Len(shape) -> 1..MaxAxis] :
        idx[1] = b /\ \A a \in 1..Len(shape) : idx[a] <= shape[a]}
RECURSIVE Position(_, _, _)
Position(shape, idx, a) ==
    IF a = 0 THEN 1
    ELSE (idx[a] - 1) * numel[SubSeq(shape, a + 1, Len(shape))]
         + Position(shape, idx, a - 1)
RECURSIVE SumSet(_, _)
SumSet(S, f) ==
    IF S = {} THEN R(0)
    ELSE LET e == CHOOSE e \in S : TRUE
         IN  RAdd(f[e], SumSet(S \ {e}, f))
BatchSum(x, b) ==
    LET I == IndicesOf(x.shape, b)
    IN  SumSet(I, [idx \in I |-> ElementLogp(x.data[Position(x.shape, idx, Len(x.shape))])])

\* One value per batch element: the sum of the element-wise log-densities
\* over all non-batch axes.
OnePerBatch(x, out) ==
    /\ out.raised = ""
    /\ out.value.shape = <<x.shape[1]>>
    /\ Len(out.value.data) = x.shape[1]
    /\ \A b \in 1..x.shape[1] : out.value.data[b] = BatchSum(x, b)

\* C7: logp raises an error when the input has rank 1 and when its rank is
\* outside {2,3,4}; for rank 2, 3 or 4 it returns one value per batch
\* element, the sum of the element-wise log-densities over all non-batch
\* axes, and raises nothing.
DistLogpRankCheck ==
    dist_io.op = "logp" =>
        /\ (Len(dist_io.x.shape) \notin {2, 3, 4} => dist_io.out.raised # "")
        /\ (Len(dist_io.x.shape) \in {2, 3, 4} => OnePerBatch(dist_io.x, dist_io.out))

\* C7, where the code meets it: the same, for a rank-3 or rank-4 input only
\* when its batch axis is not empty; with an empty batch axis those two
\* ranks raise RuntimeError from reshape(0, -1), while rank 2 returns the
\* empty result.
DistLogpNonEmptyBatch ==
    dist_io.op = "logp" =>
        LET x == dist_io.x
            rank == Len(dist_io.x.shape)
        IN  /\ (rank \notin {2, 3, 4} => dist_io.out.raised = "Exception")
            /\ (rank = 2 \/ (rank \in {3, 4} /\ x.shape[1] > 0) =>
                    OnePerBatch(x, dist_io.out))
            /\ (rank \in {3, 4} /\ x.shape[1] = 0 => dist_io.out.raised = "RuntimeError")

\* A logp call on a rank-3 input with an empty batch axis and non-empty
\* other axes, which raised.
DistLogpEmptyBatch ==
    /\ dist_io.op = "logp"
    /\ Len(dist_io.x.shape) = 3
    /\ dist_io.x.shape[1] = 0 /\ dist_io.x.shape[2] > 0 /\ dist_io.x.shape[3] > 0
    /\ dist_io.out.raised = "RuntimeError"

-----------------------------------------------------------------------------
(* iResNet.logdet: the power-series log-determinant estimator, one step of *)
(* a call per action, so that calls of several threads can interleave.     *)

\* Largest num_iter and num_n of an iResNet.
MaxIter == 2
MaxN == 3

\* vjp(g, x, w)[0] for a linear g with constant Jacobian J: the row w^T J.
vjp(J, w) ==
    SubSeq([j \in 1..Len(w) |->
              seqsum[SubSeq([i \in 1..Len(w) |-> rmul[w[i], J[i][j]]], 1, Len(w))]],
           1, Len(w))

\* torch.sum(w * v, dim=-1)
sum_wv[w \in RatSeq, v \in RatSeq] == seqsum[vmul[w, v]]

\* The term added at step k: (-1)**(k+1) * torch.sum(w * v, dim=-1) / k
series_term[k \in Nat, w \in RatSeq, v \in RatSeq] ==
    rdiv[rmul[R(IF (k + 1) % 2 = 0 THEN 1 ELSE -1), sum_wv[w, v]], R(k)]
\* The term without the alternating sign.
SeriesTermUnsigned(k, w, v) == rdiv[sum_wv[w, v], R(k)]
SeriesTerm(k, w, v) == series_term[k, w, v]

\* iResNet.__init__ with a sub-network net whose Jacobian is J; a new
\* nn.Module is in training mode, and so is its child net.
iResNet_init(dim, J, num_iter, num_n) ==
    [dim |-> dim, num_iter |-> num_iter, num_n |-> num_n,
     training |-> TRUE, net |-> [J |-> J, training |-> TRUE]]

\* nn.Module.train(mode) sets self.training, then the children's: two steps.
Module_set_self(self, mode) == [self EXCEPT !.training = mode]
Module_set_net(self, mode) == [self EXCEPT !.net.training = mode]
\* The flag left as it is.
Module_keep_self(self, mode) == self
Module_keep_net(self, mode) == self

\* self.eval() and self.train() of logdet, on the module's own flag and on
\* its child's.
logdet_eval_self_skipped(self) == Module_keep_self(self, FALSE)
logdet_train_net_skipped(self) == Module_keep_net(self, TRUE)
logdet_eval_self(self) == Module_set_self(self, FALSE)
logdet_eval_net(self) == Module_set_net(self, FALSE)
logdet_train_self(self) == Module_set_self(self, TRUE)
logdet_train_net(self) == Module_set_net(self, TRUE)

\* The Jacobians of the sub-networks and the outcomes of torch.randn.
IresJ(d) ==
    {Matrix(d, LAMBDA i, j : IF i = j THEN a ELSE IF j = i + 1 THEN b ELSE R(0)) :
        a \in {<<1, 2>>, <<-1, 2>>}, b \in {R(0), <<1, 2>>}}
Randn(d) ==
    {SubSeq([i \in 1..d |-> R(1)], 1, d),
     SubSeq([i \in 1..d |-> R(IF i % 2 = 1 THEN 2 ELSE -1)], 1, d)}

\* The frame of a thread that is not inside logdet.
IdleFrame == [pc |-> "idle"]

\* self.eval(), first half, at the entry of a call logdet(x, g).  The frame
\* remembers in `was` the mode in which the call found the module.
LogdetEvalSelf(t) ==
    /\ frames[t].pc \in {"idle", "returned", "raised"}
    /\ ires' = logdet_eval_self(ires)
    /\ frames' = [frames EXCEPT ![t] = [pc |-> "eval_net", was |-> ires.training]]

\* self.eval(), second half; logdet = 0 and the outer loop begins.
LogdetEvalNet(t) ==
    /\ frames[t].pc = "eval_net"
    /\ ires' = logdet_eval_net(ires)
    /\ frames' = [frames EXCEPT ![t] =
                    [pc |-> "loop", was |-> @.was, i |-> 0, logdet |-> R(0), vs |-> <<>>,
                     vjps |-> 0]]

\* An iteration of the outer loop begins: v = torch.randn(x.shape), w = v.
\* With num_n = 1 the inner loop is empty and the iteration is over.
LogdetProbe(t) ==
    /\ frames[t].pc = "loop"
    /\ frames[t].i < ires.num_iter
    /\ \E v \in Randn(ires.dim) :
         frames' = [frames EXCEPT ![t] =
            IF 1 < ires.num_n
            THEN [pc |-> "vjp", was |-> @.was, i |-> @.i, logdet |-> @.logdet, vs |-> Append(@.vs, v),
                  vjps |-> @.vjps, v |-> v, w |-> v, k |-> 1]
            ELSE [pc |-> "loop", was |-> @.was, i |-> @.i + 1, logdet |-> @.logdet,
                  vs |-> Append(@.vs, v), vjps |-> @.vjps]]
    /\ UNCHANGED ires

\* One pass of the inner loop: w = vjp(g, x, w)[0] and the term of step k.
LogdetVjp(t) ==
    /\ frames[t].pc = "vjp"
    /\ \E w \in {vjp(ires.net.J, frames[t].w)} :
         \E acc \in {radd[frames[t].logdet, SeriesTerm(frames[t].k, w, frames[t].v)]} :
            frames' = [frames EXCEPT ![t] =
                IF @.k + 1 < ires.num_n
                THEN [@ EXCEPT !.w = w, !.logdet = acc, !.k = @ + 1, !.vjps = @ + 1]
                ELSE [pc |-> "loop", was |-> @.was, i |-> @.i + 1, logdet |-> acc, vs |-> @.vs,
                      vjps |-> @.vjps + 1]]
    /\ UNCHANGED ires

\* After the outer loop: logdet /= self.num_iter, which raises
\* ZeroDivisionError when num_iter = 0 (logdet is then still the int 0).
LogdetDivide(t) ==
    /\ frames[t].pc = "loop"
    /\ frames[t].i >= ires.num_iter
    /\ frames' = [frames EXCEPT ![t] =
            IF ires.num_iter = 0
            THEN [pc |-> "raised", was |-> @.was, raised |-> "ZeroDivisionError"]
            ELSE [pc |-> "train_self", was |-> @.was,
                  logdet |-> rdiv[@.logdet, R(ires.num_iter)],
                  vs |-> @.vs, vjps |-> @.vjps]]
    /\ UNCHANGED ires

\* self.train(), first half.
LogdetTrainSelf(t) ==
    /\ frames[t].pc = "train_self"
    /\ ires' = logdet_train_self(ires)
    /\ frames' = [frames EXCEPT ![t].pc = "train_net"]

\* self.train(), second half, and return logdet.
LogdetTrainNet(t) ==
    /\ frames[t].pc = "train_net"
    /\ ires' = logdet_train_net(ires)
    /\ frames' = [frames EXCEPT ![t].pc = "returned"]

\* The caller puts the module in a mode of its choice between two calls.
UserSetMode ==
    /\ \A t \in DOMAIN frames : frames[t].pc \in {"idle", "returned", "raised"}
    /\ \E mode \in BOOLEAN : ires' = Module_set_net(Module_set_self(ires, mode), mode)
    /\ frames' = [t \in DOMAIN frames |-> IdleFrame]

IresObjects ==
    UNION {{iResNet_init(d, J, num_iter, num_n) :
                J \in IresJ(d), num_iter \in 0..MaxIter, num_n \in 1..MaxN} :
           d \in 1..MaxDim}

IresOthers ==
    /\ nvp = None /\ nvp_io = None /\ cnvp = None /\ cnvp_io = None
    /\ nice = None /\ nice_io = None /\ plu = None /\ plu_io = None
    /\ dist = None /\ dist_io = None /\ muvar = None /\ muvar_io = None
IresOthersUnchanged ==
    UNCHANGED <<nvp, nvp_io, cnvp, cnvp_io, nice, nice_io, plu, plu_io,
                dist, dist_io, muvar, muvar_io>>

LogdetNext(t) ==
    \/ LogdetEvalSelf(t) \/ LogdetEvalNet(t) \/ LogdetProbe(t) \/ LogdetVjp(t)
    \/ LogdetDivide(t) \/ LogdetTrainSelf(t) \/ LogdetTrainNet(t)

\* One thread calls logdet again and again.
InitIres ==
    /\ ires \in IresObjects
    /\ frames = [t \in {1} |-> IdleFrame]
    /\ IresOthers

NextIres ==
    /\ \/ \E t \in {1} : LogdetNext(t)
       \/ UserSetMode
    /\ IresOthersUnchanged

SpecIres == InitIres /\ [][NextIres]_vars

\* Two threads call logdet on the same instance.
InitIresPar ==
    /\ ires \in {m \in IresObjects : m.dim = 1 /\ m.net.J[1][1] = <<1, 2>>}
    /\ frames = [t \in {1, 2} |-> IdleFrame]
    /\ IresOthers

NextIresPar ==
    /\ \E t \in {1, 2} : LogdetNext(t)
    /\ IresOthersUnchanged

SpecIresPar == InitIresPar /\ [][NextIresPar]_vars

\* J^k, and the quadratic form v^T M v.
RECURSIVE MatPow(_, _)
MatPow(J, k) == IF k = 1 THEN J ELSE MatMul(MatPow(J, k - 1), J)
QuadForm(v, M) ==
    SeqSum(Vec([i \in DOMAIN v |->
        SeqSum(Vec([j \in DOMAIN v |-> RMul(RMul(v[i], M[i][j]), v[j])]))]))
\* v^T M, a row.
RowTimes(v, M) ==
    Vec([j \in DOMAIN v |-> SeqSum(Vec([i \in DOMAIN v |-> RMul(v[i], M[i][j])]))])

\* sum_{k=1}^{n-1} (-1)^(k+1)/k * v^T J^k v
PowerSeries(J, v, n) ==
    SeqSum(Vec([k \in 1..(n - 1) |->
        RDiv(RMul(R(IF k % 2 = 1 THEN 1 ELSE -1), QuadForm(v, MatPow(J, k))), R(k))]))

\* The estimation loop of a call: from the end of self.eval() to the
\* beginning of self.train().
InEstimation(t) == frames[t].pc \in {"loop", "vjp"}
EvalMode == ~ires.training /\ ~ires.net.training
TrainMode == ires.training /\ ires.net.training

\* C8: each probe v starts from w = v; step k (k = 1 .. num_n-1) replaces w
\* by its vector-Jacobian product, so that w = v^T J^k after step k, and adds
\* (-1)^(k+1)/k * sum(w*v); a call makes num_n-1 steps for each of num_iter
\* probes and returns the total divided by num_iter: the average over the
\* probes of sum_{k=1}^{num_n-1} (-1)^(k+1)/k * v^T J^k v, and 0 when num_n = 1.
LogdetEstimator ==
    LET f == frames[1]
        J == ires.net.J
    IN  /\ f.pc = "vjp" =>
              /\ f.k \in 1..(ires.num_n - 1)
              /\ f.v = f.vs[Len(f.vs)] /\ Len(f.vs) = f.i + 1
              /\ f.w = (IF f.k = 1 THEN f.v ELSE RowTimes(f.v, MatPow(J, f.k - 1)))
              /\ f.vjps = f.i * (ires.num_n - 1) + (f.k - 1)
              /\ f.logdet = RAdd(SeqSum(Vec([n \in 1..f.i |->
                                    PowerSeries(J, f.vs[n], ires.num_n)])),
                                 PowerSeries(J, f.v, f.k))
        /\ f.pc \in {"train_self", "train_net", "returned"} =>
              /\ Len(f.vs) = ires.num_iter
              /\ f.vjps = ires.num_iter * (ires.num_n - 1)
              /\ f.logdet = RDiv(SeqSum(Vec([n \in 1..ires.num_iter |->
                                    PowerSeries(J, f.vs[n], ires.num_n)])),
                                 R(ires.num_iter))
              /\ (ires.num_n = 1 => f.logdet = R(0))

\* Witness of C8: a call with num_iter = 2 and num_n = 3 on a module of
\* dimension 2 with a non-symmetric Jacobian returned a nonzero estimate
\* from two different probes.
LogdetEstimatorWitness ==
    /\ frames[1].pc = "returned"
    /\ ires.num_iter = 2 /\ ires.num_n = 3 /\ ires.dim = 2
    /\ ires.net.J[1][2] # ires.net.J[2][1]
    /\ frames[1].vs[1] # frames[1].vs[2]
    /\ frames[1].vjps = 4
    /\ frames[1].logdet # R(0)

\* C9: with one thread, the module is in evaluation mode at every
\* vector-Jacobian-product step of the estimation loop, and in training mode
\* when logdet has returned, whatever the mode and the calls before.
LogdetModeToggle ==
    /\ InEstimation(1) => EvalMode
    /\ frames[1].pc = "returned" => TrainMode

\* Witness of C9: a call that found the module in evaluation mode, made
\* vector-Jacobian-product steps and returned.
LogdetModeToggleWitness ==
    /\ frames[1].pc = "returned"
    /\ ~frames[1].was
    /\ frames[1].vjps >= 2
    /\ TrainMode

\* C10: with two calls interleaving on one instance, a call can be inside
\* its estimation loop while the mode flag is back at training, and the flag
\* is then the work of the other call's self.train() (LogdetHazard is the
\* reachable state).
LogdetUnsafe ==
    \A t \in {1, 2} :
        InEstimation(t) =>
            /\ ires.training => frames[3 - t].pc \in {"train_net", "returned"}
            /\ ires.net.training => frames[3 - t].pc \in {"returned", "eval_net"}

\* The state of C10: one call about to make a vector-Jacobian-product step
\* while the other call has returned and left the module in training mode.
LogdetHazard ==
    \E t \in {1, 2} :
        /\ frames[t].pc = "vjp"
        /\ frames[3 - t].pc = "returned"
        /\ TrainMode

====
